---- MODULE Spec2Model ----
(***************************************************************************)
(* SideFX Labs VAT player (src/src/sidefx-player.ts): the playback clock,  *)
(* the form fields that hold the calibration, the asynchronous mesh and    *)
(* texture loads, Apply-VAT, the thin-instance layout and the frame        *)
(* selection of the vertex shader.                                         *)
(*                                                                         *)
(* Numbers are JavaScript/GLSL numbers in exact arithmetic: a record       *)
(* [n, d] is the rational n/d (d > 0, lowest terms); d = 0 holds the       *)
(* non-finite values: [0,0] is NaN, [1,0] is +Infinity, [-1,0] -Infinity.  *)
(* Floating-point rounding is not modelled.                                *)
(***************************************************************************)
EXTENDS Integers, Sequences, FiniteSets, TLC

\* ------------------------------------------------------------------------
\* Numbers
\* ------------------------------------------------------------------------

Abs(x) == IF x < 0 THEN -x ELSE x

Sign(x) == IF x < 0 THEN -1 ELSE IF x > 0 THEN 1 ELSE 0

RECURSIVE GCD(_, _)
GCD(a, b) == IF b = 0 THEN a ELSE GCD(b, a % b)

\* The number n/d, normalised.
Norm(n, d) ==
  IF d = 0 THEN [n |-> Sign(n), d |-> 0]
  ELSE LET g == GCD(Abs(n), Abs(d))
           s == Sign(d)
       IN  [n |-> (s * n) \div g, d |-> (s * d) \div g]

I(k) == [n |-> k, d |-> 1]

NaN == [n |-> 0, d |-> 0]

IsNaN(a) == a.d = 0 /\ a.n = 0

IsFinite(a) == a.d > 0

Add(a, b) ==
  IF a.d = 0 /\ b.d = 0
    THEN (IF a.n = b.n THEN a ELSE NaN)
    ELSE Norm(a.n * b.d + b.n * a.d, a.d * b.d)

Neg(a) == [n |-> -a.n, d |-> a.d]

Sub(a, b) == Add(a, Neg(b))

Mul(a, b) == Norm(a.n * b.n, a.d * b.d)

\* JavaScript division: x/0 is +-Infinity, 0/0 is NaN.
Div(a, b) == Mul(a, Norm(b.d, b.n))

\* Comparisons with NaN are false.
Lt(a, b) ==
  /\ ~IsNaN(a) /\ ~IsNaN(b)
  /\ IF a.d > 0 /\ b.d > 0 THEN a.n * b.d < b.n * a.d
     ELSE IF a.d = 0 /\ b.d = 0 THEN a.n < b.n
     ELSE IF a.d = 0 THEN a.n < 0
     ELSE b.n > 0

Le(a, b) == ~IsNaN(a) /\ ~IsNaN(b) /\ (a = b \/ Lt(a, b))

\* floor(); the non-finite values pass through.
Floor(a) == IF a.d = 0 THEN a ELSE I(a.n \div a.d)

\* Math.ceil().
Ceil(a) == IF a.d = 0 THEN a ELSE I(-((-a.n) \div a.d))

\* Math.max / Math.min: NaN if either argument is NaN.
MathMax(a, b) == IF IsNaN(a) \/ IsNaN(b) THEN NaN ELSE IF Lt(a, b) THEN b ELSE a

MathMin(a, b) == IF IsNaN(a) \/ IsNaN(b) THEN NaN ELSE IF Lt(b, a) THEN b ELSE a

\* JavaScript's "a || dflt" on numbers: 0 and NaN are falsy.
OrElse(a, dflt) == IF IsNaN(a) \/ a = I(0) THEN dflt ELSE a

\* A form field is modelled by what Number(field.value) returns: numeric
\* text is its number, the empty text is 0 and any other text is NaN.
\* String(x) written into a field reads back as x (String(undefined) as NaN).

\* ------------------------------------------------------------------------
\* Bounds of the model and the program's constants
\* ------------------------------------------------------------------------

\* Largest |vatTime|, in seconds, the clock is followed to.
MaxTime == 2

\* Number of load requests (mesh and textures together) followed.
MaxLoads == 3

DefaultSpeed == 1

DefaultFrames == 24

DefaultFps == 24

DefaultCount == 100

DefaultSpacing == 3

MinInstances == 1

MaxInstances == 10000

MsPerSecond == 1000

NULL == 0

\* engine.getDeltaTime(), in milliseconds.
DeltaValues == {0, 250, 500}

\* What the user types into the frame-count field.
FrameInputs == {NaN, I(-2), I(0), I(4)}

\* What the user types into the fps field.
FpsInputs == {I(0), I(2)}

\* What the user can type into the speed field.
SpeedValues == {NaN, I(-1), I(0), Norm(1, 2), I(1), I(2)}

\* A material that was never made: "null".
NoMaterial ==
  [made |-> FALSE, disposed |-> FALSE, vatTime |-> I(0), numFrames |-> I(0),
   fps |-> I(0), posMin |-> <<I(0), I(0), I(0)>>, posMax |-> <<I(0), I(0), I(0)>>,
   isPacked |-> FALSE, positionTexture |-> NULL, normalTexture |-> NULL,
   useNormalTex |-> FALSE]

\* A scene without meshes.
NoMesh ==
  [present |-> FALSE, id |-> NULL, uv2 |-> FALSE, material |-> "none",
   thinInstanceCount |-> 0, matrices |-> <<>>, timeOffsets |-> <<>>]

VARIABLES
  vatTime,        \* let vatTime
  isPlaying,      \* let isPlaying
  speedInput,     \* speedInput.value
  deltaTime,      \* engine.getDeltaTime() of the current frame, in ms
  statusEl,       \* statusEl.textContent, as a tag
  lastEvent,      \* the handler that ran last (history)
  positionTexture,  \* let positionTexture: a texture id or NULL
  normalTexture,    \* let normalTexture
  disposedTex,    \* the textures dispose() was called on
  loads,          \* the loads in flight (promises not yet settled)
  nLoads,         \* load requests so far; a texture's id is its request's number
  latestReq,      \* per slot, the number of its newest request (history)
  lastLoad,       \* the load whose completion was handled last (history)
  sceneId,        \* let scene: the id of the current scene
  mesh,           \* the mesh of the current scene
  meshSelect,     \* meshSelect: [disabled, value]
  buttonsDisabled,  \* applyButton/playButton/pauseButton/resetButton.disabled
  vatMaterial,    \* let vatMaterial
  vatMaterialInstanced,  \* let vatMaterialInstanced
  originalMaterials,  \* the keys of originalMaterials
  currentVatMesh,   \* let currentVatMesh: a mesh id or NULL
  isInstancedMode,  \* let isInstancedMode
  instancedModeCheckbox,  \* instancedModeCheckbox.checked
  instanceCountInput,     \* instanceCountInput.value
  instanceSpacingInput,   \* instanceSpacingInput.value
  numFramesInput,   \* numFramesInput.value
  fpsInput,         \* fpsInput.value
  posMinInput,      \* posMinX/Y/Z.value
  posMaxInput,      \* posMaxX/Y/Z.value
  isPacked,         \* let isPacked
  vsOut,            \* the last vertex shader invocation: its inputs and frame
  lastMeta          \* the metadata file handled last (history)

clockVars == <<vatTime, isPlaying>>

textureVars == <<positionTexture, normalTexture, disposedTex>>

loadVars == <<loads, nLoads, latestReq, lastLoad>>

sceneVars == <<sceneId, mesh, meshSelect>>

materialVars == <<vatMaterial, vatMaterialInstanced, originalMaterials,
                  currentVatMesh, isInstancedMode>>

instanceFields == <<instancedModeCheckbox, instanceCountInput, instanceSpacingInput>>

calibFields == <<numFramesInput, fpsInput, posMinInput, posMaxInput>>

vars == <<vatTime, isPlaying, speedInput, deltaTime, statusEl, lastEvent,
          positionTexture, normalTexture, disposedTex, loads, nLoads,
          latestReq, lastLoad, sceneId, mesh, meshSelect, buttonsDisabled,
          vatMaterial, vatMaterialInstanced, originalMaterials, currentVatMesh,
          isInstancedMode, instancedModeCheckbox, instanceCountInput,
          instanceSpacingInput, numFramesInput, fpsInput, posMinInput,
          posMaxInput, isPacked, vsOut, lastMeta>>

Slots == {"mesh", "pos", "norm"}

\* What the claims about loads compare before and after a load.
Snapshot ==
  [positionTexture |-> positionTexture,
   positionUsable |-> positionTexture \notin disposedTex,
   normalTexture |-> normalTexture,
   normalUsable |-> normalTexture \notin disposedTex,
   scene |-> sceneId,
   vatMaterial |-> vatMaterial,
   vatMaterialInstanced |-> vatMaterialInstanced,
   currentVatMesh |-> currentVatMesh,
   vatTime |-> vatTime,
   isPlaying |-> isPlaying]

\* A load in flight: the slot it is for, the texture object it creates (tex),
\* the scene it was given, the kind of file, and (history) the controller
\* state when it was requested and whether nothing else was in flight then.
Load(seq, slot, tex, scene, file) ==
  [seq |-> seq, slot |-> slot, tex |-> tex, scene |-> scene, file |-> file,
   prior |-> Snapshot, alone |-> loads = {}]

NoLoad ==
  [seq |-> 0, slot |-> "none", tex |-> NULL, scene |-> 0, file |-> "none",
   prior |-> [positionTexture |-> NULL, positionUsable |-> TRUE,
              normalTexture |-> NULL, normalUsable |-> TRUE, scene |-> 1,
              vatMaterial |-> NoMaterial, vatMaterialInstanced |-> NoMaterial,
              currentVatMesh |-> NULL, vatTime |-> I(0), isPlaying |-> FALSE],
   alone |-> FALSE]

\* Partial<VatMetadata>: the keys that are defined, and their values.
NoMetadata ==
  [has |-> {}, numFrames |-> I(0), fps |-> I(0),
   posMin |-> <<I(0), I(0), I(0)>>, posMax |-> <<I(0), I(0), I(0)>>,
   packed |-> FALSE]

\* A metadata file: whether its text holds "%YAML", the vendor fields it
\* holds lines for ("- <name>: <number>"), what JSON.parse makes of the text
\* ("throws", "null", "scalar", "array", "object") and, for an object, its keys.
NoDocument ==
  [yamlMarker |-> FALSE, present |-> {}, parse |-> "throws", meta |-> NoMetadata]

NoShaderRun == [ran |-> FALSE, time |-> I(0), offset |-> I(0), fps |-> I(0),
                numFrames |-> I(0), frame |-> I(0)]

\* The module-level state after construction.
InitController ==
  /\ vatTime = I(0)
  /\ isPlaying = FALSE
  /\ speedInput = I(1)
  /\ deltaTime = 0
  /\ statusEl = "Load a mesh and VAT textures"
  /\ lastEvent = "init"
  /\ positionTexture = NULL
  /\ normalTexture = NULL
  /\ disposedTex = {}
  /\ loads = {}
  /\ nLoads = 0
  /\ latestReq = [slot \in Slots |-> 0]
  /\ lastLoad = NoLoad
  /\ sceneId = 1
  /\ mesh = NoMesh
  /\ meshSelect = [disabled |-> TRUE, value |-> NULL]
  /\ buttonsDisabled = TRUE
  /\ vatMaterial = NoMaterial
  /\ vatMaterialInstanced = NoMaterial
  /\ originalMaterials = {}
  /\ currentVatMesh = NULL
  /\ isInstancedMode = FALSE
  /\ instancedModeCheckbox = FALSE
  /\ instanceCountInput = I(100)
  /\ instanceSpacingInput = I(3)
  /\ numFramesInput = I(24)
  /\ fpsInput = I(24)
  /\ posMinInput = <<I(0), I(0), I(0)>>
  /\ posMaxInput = <<I(1), I(1), I(1)>>
  /\ isPacked = TRUE
  /\ lastMeta = NoDocument

Init == InitController /\ vsOut = NoShaderRun

\* ------------------------------------------------------------------------
\* Vertex shader: frame selection
\* ------------------------------------------------------------------------

\* A remainder taken in (0, y]: it is y, not 0, at the exact multiples of y.
GlslModUpper(x, y) == Sub(x, Mul(y, Sub(Ceil(Div(x, y)), I(1))))

\* GLSL mod(x, y) = x - y * floor(x / y)
GlslMod(x, y) == Sub(x, Mul(y, Floor(Div(x, y))))

\* float frame = floor(mod(effectiveTime * fps, numFrames))
FrameOf(effectiveTime, fps, numFrames) ==
  Floor(GlslMod(Mul(effectiveTime, fps), numFrames))

\* main() of VAT_VERTEX_SHADER, up to the frame: effectiveTime is
\* vatTime + instanceTimeOffset (the offset is 0 without INSTANCES).
VertexShaderMain(time, offset, fps, numFrames) ==
  [ran |-> TRUE, time |-> time, offset |-> offset, fps |-> fps,
   numFrames |-> numFrames, frame |-> FrameOf(Add(time, offset), fps, numFrames)]

\* scene.render(): the shader runs for every instance of the mesh that wears
\* a VAT material; vsOut keeps one of these invocations.
SceneRender ==
  IF mesh.present /\ mesh.material = "vat"
    THEN vsOut' = VertexShaderMain(vatMaterial.vatTime, I(0),
                                   vatMaterial.fps, vatMaterial.numFrames)
  ELSE IF mesh.present /\ mesh.material = "inst"
    THEN \E i \in DOMAIN mesh.timeOffsets :
           vsOut' = VertexShaderMain(vatMaterialInstanced.vatTime,
                                     mesh.timeOffsets[i],
                                     vatMaterialInstanced.fps,
                                     vatMaterialInstanced.numFrames)
  ELSE UNCHANGED vsOut

\* ------------------------------------------------------------------------
\* Playback clock
\* ------------------------------------------------------------------------

\* setFloat("vatTime", t) left out
SetVatTimeSkipped(material, t) == material

\* material.setFloat("vatTime", t) on a material that exists
SetVatTime(material, t) ==
  IF material.made THEN [material EXCEPT !.vatTime = t] ELSE material

\* playButton click
Play ==
  /\ isPlaying' = TRUE
  /\ statusEl' = "Playing..."
  /\ lastEvent' = "play"
  /\ UNCHANGED <<vatTime, speedInput, deltaTime, textureVars, loadVars, sceneVars,
                 buttonsDisabled, materialVars, instanceFields, calibFields,
                 isPacked, vsOut, lastMeta>>

\* pauseButton click
Pause ==
  /\ isPlaying' = FALSE
  /\ statusEl' = "Paused."
  /\ lastEvent' = "pause"
  /\ UNCHANGED <<vatTime, speedInput, deltaTime, textureVars, loadVars, sceneVars,
                 buttonsDisabled, materialVars, instanceFields, calibFields,
                 isPacked, vsOut, lastMeta>>

\* A reset that also stops playback (as Apply-VAT does).
ResetAndPause ==
  /\ vatTime' = I(0)
  /\ isPlaying' = FALSE
  /\ vatMaterial' = SetVatTime(vatMaterial, I(0))
  /\ vatMaterialInstanced' = SetVatTime(vatMaterialInstanced, I(0))
  /\ statusEl' = "Reset to frame 0."
  /\ lastEvent' = "reset"
  /\ UNCHANGED <<speedInput, deltaTime, textureVars, loadVars, sceneVars,
                 buttonsDisabled, originalMaterials, currentVatMesh,
                 isInstancedMode, instanceFields, calibFields, isPacked, vsOut, lastMeta>>

\* resetButton click
Reset ==
  /\ vatTime' = I(0)
  /\ vatMaterial' = SetVatTime(vatMaterial, I(0))
  /\ vatMaterialInstanced' = SetVatTime(vatMaterialInstanced, I(0))
  /\ statusEl' = "Reset to frame 0."
  /\ lastEvent' = "reset"
  /\ UNCHANGED <<isPlaying, speedInput, deltaTime, textureVars, loadVars, sceneVars,
                 buttonsDisabled, originalMaterials, currentVatMesh,
                 isInstancedMode, instanceFields, calibFields, isPacked, vsOut, lastMeta>>

\* const speed = Number(speedInput.value) || 1
SpeedOf(text) == OrElse(text, I(DefaultSpeed))

\* vatTime + (engine.getDeltaTime() / 1000) * speed
Advance(t, delta, text) ==
  Add(t, Mul(Div(I(delta), I(MsPerSecond)), SpeedOf(text)))

\* engine.runRenderLoop callback, on a frame that took delta ms
RenderTick(delta) ==
  /\ deltaTime' = delta
  /\ SceneRender
  /\ IF isPlaying
       THEN /\ vatTime' = Advance(vatTime, delta, speedInput)
            /\ vatMaterial' = SetVatTime(vatMaterial, vatTime')
            /\ vatMaterialInstanced' = SetVatTime(vatMaterialInstanced, vatTime')
       ELSE UNCHANGED <<vatTime, vatMaterial, vatMaterialInstanced>>
  /\ Le(vatTime', I(MaxTime)) /\ Le(I(-MaxTime), vatTime')
  /\ lastEvent' = "tick"
  /\ UNCHANGED <<isPlaying, speedInput, statusEl, textureVars, loadVars, sceneVars,
                 buttonsDisabled, originalMaterials, currentVatMesh,
                 isInstancedMode, instanceFields, calibFields, isPacked,
                 lastMeta>>

\* The user edits the speed field (no listener is attached to it).
SetSpeed(v) ==
  /\ speedInput' = v
  /\ lastEvent' = "speed"
  /\ UNCHANGED <<vatTime, isPlaying, deltaTime, statusEl, textureVars, loadVars, sceneVars,
                 buttonsDisabled, materialVars, instanceFields, calibFields,
                 isPacked, vsOut, lastMeta>>

NextClock ==
  \/ Play
  \/ Pause
  \/ Reset
  \/ \E delta \in DeltaValues : RenderTick(delta)
  \/ \E v \in SpeedValues : SetSpeed(v)

SpecClock == Init /\ [][NextClock]_vars

\* ------------------------------------------------------------------------
\* Loading the mesh and the textures
\* ------------------------------------------------------------------------

\* The kinds of mesh file: with the UV2 channel, or without it.
MeshFiles == {"uv2", "nouv2"}

\* The kinds of texture file, by extension.
TextureFiles == {"png", "exr"}

\* isPacked = !["exr", "tiff", "tif", "hdr"].includes(ext)
PackedByExtension(file) == file \notin {"exr", "tiff", "tif", "hdr"}

\* texture?.dispose(): the textures this call disposes of
Disposing(texture) == IF texture = NULL THEN {} ELSE {texture}

\* updateButtons(): the buttons are disabled unless a mesh can be selected
\* and a position texture is held.
ButtonsDisabledFor(select, texture) == ~(~select.disabled /\ texture # NULL)

\* populateMeshSelect(): the options are the meshes of the current scene;
\* the first one is the selected one.
MeshSelectFor(m) ==
  IF m.present THEN [disabled |-> FALSE, value |-> m.id]
  ELSE [disabled |-> TRUE, value |-> NULL]

\* The mesh a file of this kind adds to the scene it is loaded into.
MeshOf(load) ==
  [present |-> TRUE, id |-> load.scene, uv2 |-> load.file = "uv2",
   material |-> "orig", thinInstanceCount |-> 0, matrices |-> <<>>,
   timeOffsets |-> <<>>]

\* resetState()
ResetState ==
  /\ vatMaterial' = NoMaterial
  /\ vatMaterialInstanced' = NoMaterial
  /\ disposedTex' = disposedTex \cup Disposing(positionTexture)
                                \cup Disposing(normalTexture)
  /\ positionTexture' = NULL
  /\ normalTexture' = NULL
  /\ originalMaterials' = {}
  /\ vatTime' = I(0)
  /\ isPlaying' = FALSE
  /\ currentVatMesh' = NULL
  /\ isInstancedMode' = FALSE
  /\ instancedModeCheckbox' = FALSE

\* modelInput change, up to the await: resetState(), the scene is disposed
\* and a new one created, AppendSceneAsync(file, scene) is started.
SelectModel(file) ==
  /\ nLoads < MaxLoads
  /\ ResetState
  /\ statusEl' = "Loading mesh..."
  /\ sceneId' = sceneId + 1
  /\ mesh' = NoMesh
  /\ nLoads' = nLoads + 1
  /\ loads' = loads \cup {Load(nLoads', "mesh", NULL, sceneId', file)}
  /\ latestReq' = [latestReq EXCEPT !["mesh"] = nLoads']
  /\ lastEvent' = "selectModel"
  /\ UNCHANGED <<speedInput, deltaTime, lastLoad, meshSelect, buttonsDisabled,
                 instanceCountInput, instanceSpacingInput, calibFields,
                 isPacked, vsOut, lastMeta>>

\* modelInput change, after the await resolved: the meshes are in the scene
\* the load was given.
ModelLoaded(load) ==
  /\ load \in loads /\ load.slot = "mesh"
  /\ loads' = loads \ {load}
  /\ lastLoad' = load
  /\ mesh' = IF load.scene = sceneId THEN MeshOf(load) ELSE mesh
  /\ meshSelect' = MeshSelectFor(mesh')
  /\ statusEl' = "Loaded: file"
  /\ buttonsDisabled' = ButtonsDisabledFor(meshSelect', positionTexture)
  /\ lastEvent' = "modelLoaded"
  /\ UNCHANGED <<clockVars, speedInput, deltaTime, textureVars, nLoads,
                 latestReq, sceneId, materialVars, instanceFields, calibFields,
                 isPacked, vsOut, lastMeta>>

\* modelInput change, after the await rejected
ModelFailed(load) ==
  /\ load \in loads /\ load.slot = "mesh"
  /\ loads' = loads \ {load}
  /\ lastLoad' = load
  /\ statusEl' = "Failed to load mesh"
  /\ lastEvent' = "modelFailed"
  /\ UNCHANGED <<clockVars, speedInput, deltaTime, textureVars, nLoads,
                 latestReq, sceneVars, buttonsDisabled, materialVars,
                 instanceFields, calibFields, isPacked, vsOut, lastMeta>>

\* posTexInput change, up to the await: the held texture is disposed of and
\* loadTextureFromFile(file, scene) creates the new one.
SelectPosTex(file) ==
  /\ nLoads < MaxLoads
  /\ statusEl' = "Loading position texture..."
  /\ disposedTex' = disposedTex \cup Disposing(positionTexture)
  /\ nLoads' = nLoads + 1
  /\ loads' = loads \cup {Load(nLoads', "pos", nLoads', sceneId, file)}
  /\ latestReq' = [latestReq EXCEPT !["pos"] = nLoads']
  /\ lastEvent' = "selectPosTex"
  /\ UNCHANGED <<clockVars, speedInput, deltaTime, positionTexture,
                 normalTexture, lastLoad, sceneVars, buttonsDisabled,
                 materialVars, instanceFields, calibFields, isPacked, vsOut, lastMeta>>

\* posTexInput change, after the await resolved
PosTexLoaded(load) ==
  /\ load \in loads /\ load.slot = "pos"
  /\ loads' = loads \ {load}
  /\ lastLoad' = load
  /\ positionTexture' = load.tex
  /\ isPacked' = PackedByExtension(load.file)
  /\ statusEl' = "Position texture loaded"
  /\ buttonsDisabled' = ButtonsDisabledFor(meshSelect, positionTexture')
  /\ lastEvent' = "posTexLoaded"
  /\ UNCHANGED <<clockVars, speedInput, deltaTime, normalTexture, disposedTex,
                 nLoads, latestReq, sceneVars, materialVars, instanceFields,
                 calibFields, vsOut, lastMeta>>

\* posTexInput change, after the await rejected
PosTexFailed(load) ==
  /\ load \in loads /\ load.slot = "pos"
  /\ loads' = loads \ {load}
  /\ lastLoad' = load
  /\ statusEl' = "Failed to load position texture"
  /\ lastEvent' = "posTexFailed"
  /\ UNCHANGED <<clockVars, speedInput, deltaTime, textureVars, nLoads,
                 latestReq, sceneVars, buttonsDisabled, materialVars,
                 instanceFields, calibFields, isPacked, vsOut, lastMeta>>

\* normalTexInput change, up to the await
SelectNormalTex(file) ==
  /\ nLoads < MaxLoads
  /\ disposedTex' = disposedTex \cup Disposing(normalTexture)
  /\ nLoads' = nLoads + 1
  /\ loads' = loads \cup {Load(nLoads', "norm", nLoads', sceneId, file)}
  /\ latestReq' = [latestReq EXCEPT !["norm"] = nLoads']
  /\ lastEvent' = "selectNormalTex"
  /\ UNCHANGED <<clockVars, speedInput, deltaTime, statusEl, positionTexture,
                 normalTexture, lastLoad, sceneVars, buttonsDisabled,
                 materialVars, instanceFields, calibFields, isPacked, vsOut, lastMeta>>

\* normalTexInput change, after the await resolved
NormalTexLoaded(load) ==
  /\ load \in loads /\ load.slot = "norm"
  /\ loads' = loads \ {load}
  /\ lastLoad' = load
  /\ normalTexture' = load.tex
  /\ statusEl' = "Normal texture loaded"
  /\ lastEvent' = "normalTexLoaded"
  /\ UNCHANGED <<clockVars, speedInput, deltaTime, positionTexture, disposedTex,
                 nLoads, latestReq, sceneVars, buttonsDisabled, materialVars,
                 instanceFields, calibFields, isPacked, vsOut, lastMeta>>

\* normalTexInput change, after the await rejected
NormalTexFailed(load) ==
  /\ load \in loads /\ load.slot = "norm"
  /\ loads' = loads \ {load}
  /\ lastLoad' = load
  /\ statusEl' = "Failed to load normal texture"
  /\ lastEvent' = "normalTexFailed"
  /\ UNCHANGED <<clockVars, speedInput, deltaTime, textureVars, nLoads,
                 latestReq, sceneVars, buttonsDisabled, materialVars,
                 instanceFields, calibFields, isPacked, vsOut, lastMeta>>

NextLoad ==
  \/ \E file \in MeshFiles : SelectModel(file)
  \/ \E load \in loads : ModelLoaded(load)
  \/ \E load \in loads : ModelFailed(load)
  \/ \E file \in TextureFiles : SelectPosTex(file)
  \/ \E load \in loads : PosTexLoaded(load)
  \/ \E load \in loads : PosTexFailed(load)
  \/ \E file \in TextureFiles : SelectNormalTex(file)
  \/ \E load \in loads : NormalTexLoaded(load)
  \/ \E load \in loads : NormalTexFailed(load)

SpecLoad == Init /\ [][NextLoad]_vars

\* ------------------------------------------------------------------------
\* Instance layout
\* ------------------------------------------------------------------------

\* Math.ceil(Math.sqrt(n)) for an integer n >= 0
CeilSqrt(n) == CHOOSE g \in 0..n : g * g >= n /\ (g = 0 \/ (g - 1) * (g - 1) < n)

\* const instanceCount =
\*   Math.max(1, Math.min(10000, Number(instanceCountInput.value) || 100))
InstanceCountOf(text) ==
  MathMax(I(MinInstances), MathMin(I(MaxInstances), OrElse(text, I(DefaultCount))))

\* const spacing = Number(instanceSpacingInput.value) || 3
SpacingOf(text) == OrElse(text, I(DefaultSpacing))

\* The phase divided by the grid size less one, not by twice that.
TimeOffsetHalfDivisor(row, col, gridSize, animDuration) ==
  Mul(Div(I(row + col), I(gridSize - 1)), animDuration)

\* timeOffsets[i] = ((row + col) / (gridSize * 2 - 2)) * animDuration
TimeOffsetOf(row, col, gridSize, animDuration) ==
  Mul(Div(I(row + col), I(gridSize * 2 - 2)), animDuration)

\* Matrix.Translation(x, 0, z) of instance i, as its translation
TranslationOf(row, col, gridSize, spacing) ==
  LET gridOffset == Div(Mul(I(gridSize - 1), spacing), I(2))
  IN  <<Sub(Mul(I(col), spacing), gridOffset), I(0),
        Sub(Mul(I(row), spacing), gridOffset)>>

\* The grid loop of applyInstancing: instance i (from 0) is entry i + 1.
GridOf(instanceCount, gridSize, spacing, animDuration) ==
  [gridSize |-> gridSize,
   matrices |-> [k \in 1..instanceCount |->
                   TranslationOf((k - 1) \div gridSize, (k - 1) % gridSize,
                                 gridSize, spacing)],
   timeOffsets |-> [k \in 1..instanceCount |->
                      TimeOffsetOf((k - 1) \div gridSize, (k - 1) % gridSize,
                                   gridSize, animDuration)]]

\* const gridSize = Math.ceil(Math.sqrt(instanceCount)), then the grid loop
LayoutOf(instanceCount, spacing, animDuration) ==
  GridOf(instanceCount, CeilSqrt(instanceCount), spacing, animDuration)

\* ------------------------------------------------------------------------
\* Apply-VAT and instancing
\* ------------------------------------------------------------------------

\* const numFrames = Number(numFramesInput.value) || 24
NumFramesOf(text) == OrElse(text, I(DefaultFrames))

\* const fps = Number(fpsInput.value) || 24
FpsOf(text) == OrElse(text, I(DefaultFps))

\* The material with the fps uniform left at its default
MaterialWithDefaultFps(time, posTex, normTex, framesText, fpsText, minText, maxText, packed) ==
  [made |-> TRUE, disposed |-> FALSE, vatTime |-> time,
   numFrames |-> NumFramesOf(framesText), fps |-> I(DefaultFps),
   posMin |-> minText, posMax |-> maxText, isPacked |-> packed,
   positionTexture |-> posTex, normalTexture |-> normTex,
   useNormalTex |-> normTex # NULL]

\* new ShaderMaterial(...) and the uniforms both applyVat and applyInstancing
\* set from the fields and the texture slots.
MaterialOf(time, posTex, normTex, framesText, fpsText, minText, maxText, packed) ==
  [made |-> TRUE, disposed |-> FALSE, vatTime |-> time,
   numFrames |-> NumFramesOf(framesText), fps |-> FpsOf(fpsText),
   posMin |-> minText, posMax |-> maxText, isPacked |-> packed,
   positionTexture |-> posTex, normalTexture |-> normTex,
   useNormalTex |-> normTex # NULL]

\* What applyInstancing reads and writes.
Controller ==
  [currentVatMesh |-> currentVatMesh, vatMaterial |-> vatMaterial,
   vatMaterialInstanced |-> vatMaterialInstanced,
   isInstancedMode |-> isInstancedMode, mesh |-> mesh, statusEl |-> statusEl,
   vatTime |-> vatTime]

\* applyInstancing(enable) run on the controller state c, the instance count
\* and spacing fields holding countText and spacingText.
ApplyInstancing(enable, c, countText, spacingText) ==
  IF c.currentVatMesh = NULL \/ ~c.vatMaterial.made \/ positionTexture = NULL
    THEN c
  ELSE IF ~enable
    THEN [c EXCEPT !.isInstancedMode = FALSE,
                   !.mesh.thinInstanceCount = 0,
                   !.mesh.material = "vat",
                   !.vatMaterialInstanced = NoMaterial,
                   !.statusEl = "Instancing disabled. Single mesh mode."]
  ELSE
    LET material == MaterialOf(c.vatTime, positionTexture, normalTexture,
                               numFramesInput, fpsInput, posMinInput,
                               posMaxInput, isPacked)
        instanceCount == InstanceCountOf(countText).n
        animDuration == Div(material.numFrames, material.fps)
        layout == LayoutOf(instanceCount, SpacingOf(spacingText), animDuration)
    IN  [c EXCEPT !.isInstancedMode = TRUE,
                  !.vatMaterialInstanced = material,
                  !.mesh.thinInstanceCount = instanceCount,
                  !.mesh.matrices = layout.matrices,
                  !.mesh.timeOffsets = layout.timeOffsets,
                  !.mesh.material = "inst",
                  !.statusEl = "Instancing enabled"]

\* The controller state c becomes the next state.
Becomes(c) ==
  /\ currentVatMesh' = c.currentVatMesh
  /\ vatMaterial' = c.vatMaterial
  /\ vatMaterialInstanced' = c.vatMaterialInstanced
  /\ isInstancedMode' = c.isInstancedMode
  /\ mesh' = c.mesh
  /\ statusEl' = c.statusEl
  /\ vatTime' = c.vatTime

\* scene.meshes.find((m) => m.uniqueId === Number(meshSelect.value))
MeshFound == mesh.present /\ mesh.id = meshSelect.value

\* applyVat() without the test for the UV2 channel
ApplyVatAnyMesh ==
  /\ lastEvent' = "applyVat"
  /\ IF positionTexture = NULL
       THEN /\ statusEl' = "Load a position texture first."
            /\ UNCHANGED <<clockVars, mesh, materialVars>>
     ELSE IF ~MeshFound
       THEN /\ statusEl' = "Select a mesh first."
            /\ UNCHANGED <<clockVars, mesh, materialVars>>
     ELSE
       LET material == MaterialOf(I(0), positionTexture, normalTexture,
                                  numFramesInput, fpsInput, posMinInput,
                                  posMaxInput, isPacked)
           applied == [Controller EXCEPT !.vatMaterial = material,
                                         !.mesh.material = "vat",
                                         !.vatTime = I(0),
                                         !.currentVatMesh = mesh.id]
           after == IF instancedModeCheckbox
                      THEN ApplyInstancing(TRUE, applied, instanceCountInput,
                                           instanceSpacingInput)
                      ELSE applied
       IN  /\ originalMaterials' = originalMaterials \cup {mesh.id}
           /\ isPlaying' = FALSE
           /\ Becomes([after EXCEPT !.statusEl = "VAT applied"])
  /\ UNCHANGED <<speedInput, deltaTime, textureVars, loadVars, sceneId,
                 meshSelect, buttonsDisabled, instanceFields, calibFields,
                 isPacked, vsOut, lastMeta>>

\* applyButton click: applyVat()
ApplyVat ==
  /\ lastEvent' = "applyVat"
  /\ IF positionTexture = NULL
       THEN /\ statusEl' = "Load a position texture first."
            /\ UNCHANGED <<clockVars, mesh, materialVars>>
     ELSE IF ~MeshFound
       THEN /\ statusEl' = "Select a mesh first."
            /\ UNCHANGED <<clockVars, mesh, materialVars>>
     ELSE IF ~mesh.uv2
       THEN /\ statusEl' = "Mesh has no UV2 channel."
            /\ UNCHANGED <<clockVars, mesh, materialVars>>
     ELSE
       LET material == MaterialOf(I(0), positionTexture, normalTexture,
                                  numFramesInput, fpsInput, posMinInput,
                                  posMaxInput, isPacked)
           applied == [Controller EXCEPT !.vatMaterial = material,
                                         !.mesh.material = "vat",
                                         !.vatTime = I(0),
                                         !.currentVatMesh = mesh.id]
           after == IF instancedModeCheckbox
                      THEN ApplyInstancing(TRUE, applied, instanceCountInput,
                                           instanceSpacingInput)
                      ELSE applied
       IN  /\ originalMaterials' = originalMaterials \cup {mesh.id}
           /\ isPlaying' = FALSE
           /\ Becomes([after EXCEPT !.statusEl = "VAT applied"])
  /\ UNCHANGED <<speedInput, deltaTime, textureVars, loadVars, sceneId,
                 meshSelect, buttonsDisabled, instanceFields, calibFields,
                 isPacked, vsOut, lastMeta>>

\* instancedModeCheckbox change
ToggleInstanced ==
  /\ instancedModeCheckbox' = ~instancedModeCheckbox
  /\ IF currentVatMesh # NULL
       THEN Becomes(ApplyInstancing(instancedModeCheckbox', Controller,
                                    instanceCountInput, instanceSpacingInput))
       ELSE Becomes(Controller)
  /\ lastEvent' = "toggleInstanced"
  /\ UNCHANGED <<isPlaying, speedInput, deltaTime, textureVars, loadVars,
                 sceneId, meshSelect, buttonsDisabled, originalMaterials,
                 instanceCountInput, instanceSpacingInput, calibFields,
                 isPacked, vsOut, lastMeta>>

\* instanceCountInput change, the user having typed v
ChangeInstanceCount(v) ==
  /\ instanceCountInput' = v
  /\ IF currentVatMesh # NULL /\ instancedModeCheckbox
       THEN Becomes(ApplyInstancing(TRUE, Controller, v, instanceSpacingInput))
       ELSE Becomes(Controller)
  /\ lastEvent' = "changeInstanceCount"
  /\ UNCHANGED <<isPlaying, speedInput, deltaTime, textureVars, loadVars,
                 sceneId, meshSelect, buttonsDisabled, originalMaterials,
                 instancedModeCheckbox, instanceSpacingInput, calibFields,
                 isPacked, vsOut, lastMeta>>

\* instanceSpacingInput change, the user having typed v
ChangeInstanceSpacing(v) ==
  /\ instanceSpacingInput' = v
  /\ IF currentVatMesh # NULL /\ instancedModeCheckbox
       THEN Becomes(ApplyInstancing(TRUE, Controller, instanceCountInput, v))
       ELSE Becomes(Controller)
  /\ lastEvent' = "changeInstanceSpacing"
  /\ UNCHANGED <<isPlaying, speedInput, deltaTime, textureVars, loadVars,
                 sceneId, meshSelect, buttonsDisabled, originalMaterials,
                 instancedModeCheckbox, instanceCountInput, calibFields,
                 isPacked, vsOut, lastMeta>>

\* The user edits the frame-count field (no listener is attached to it).
SetNumFrames(v) ==
  /\ numFramesInput' = v
  /\ lastEvent' = "numFrames"
  /\ UNCHANGED <<clockVars, speedInput, deltaTime, statusEl, textureVars,
                 loadVars, sceneVars, buttonsDisabled, materialVars,
                 instanceFields, fpsInput, posMinInput, posMaxInput, isPacked,
                 vsOut, lastMeta>>

\* The user edits the fps field (no listener is attached to it).
SetFps(v) ==
  /\ fpsInput' = v
  /\ lastEvent' = "fps"
  /\ UNCHANGED <<clockVars, speedInput, deltaTime, statusEl, textureVars,
                 loadVars, sceneVars, buttonsDisabled, materialVars,
                 instanceFields, numFramesInput, posMinInput, posMaxInput,
                 isPacked, vsOut, lastMeta>>

\* ------------------------------------------------------------------------
\* Metadata files
\* ------------------------------------------------------------------------

UnityFields ==
  {"_boundMinX", "_boundMinY", "_boundMinZ", "_boundMaxX", "_boundMaxY",
   "_boundMaxZ", "_frameCount", "_houdiniFPS"}

MetadataKeys == {"numFrames", "fps", "posMin", "posMax", "packed"}

\* The number a vendor file's line for this field holds.
LineValue(name) ==
  CASE name = "_boundMinX" -> Norm(-3, 2)
    [] name = "_boundMinY" -> I(-2)
    [] name = "_boundMinZ" -> I(-1)
    [] name = "_boundMaxX" -> Norm(3, 2)
    [] name = "_boundMaxY" -> I(2)
    [] name = "_boundMaxZ" -> I(3)
    [] name = "_frameCount" -> Norm(95, 2)
    [] OTHER -> I(30)

\* extractFloat(name) giving 0 for a line that is missing
ExtractFloatOrZero(doc, name) ==
  [defined |-> TRUE,
   value |-> IF name \in doc.present THEN LineValue(name) ELSE I(0)]

\* extractFloat(name): the number of the line "- <name>: <number>", or
\* undefined when the text has no such line.
ExtractFloat(doc, name) ==
  IF name \in doc.present
    THEN [defined |-> TRUE, value |-> LineValue(name)]
    ELSE [defined |-> FALSE, value |-> NaN]

\* Math.round()
MathRound(a) == Floor(Add(a, Norm(1, 2)))

\* parseUnityMaterial(text)
ParseUnityMaterial(doc) ==
  LET boundMinX == ExtractFloat(doc, "_boundMinX")
      boundMinY == ExtractFloat(doc, "_boundMinY")
      boundMinZ == ExtractFloat(doc, "_boundMinZ")
      boundMaxX == ExtractFloat(doc, "_boundMaxX")
      boundMaxY == ExtractFloat(doc, "_boundMaxY")
      boundMaxZ == ExtractFloat(doc, "_boundMaxZ")
      frameCount == ExtractFloat(doc, "_frameCount")
      fps == ExtractFloat(doc, "_houdiniFPS")
      hasMin == boundMinX.defined /\ boundMinY.defined /\ boundMinZ.defined
      hasMax == boundMaxX.defined /\ boundMaxY.defined /\ boundMaxZ.defined
  IN  [has |-> (IF hasMin THEN {"posMin"} ELSE {})
                 \cup (IF hasMax THEN {"posMax"} ELSE {})
                 \cup (IF frameCount.defined THEN {"numFrames"} ELSE {})
                 \cup (IF fps.defined THEN {"fps"} ELSE {}),
       numFrames |-> IF frameCount.defined THEN MathRound(frameCount.value)
                     ELSE I(0),
       fps |-> IF fps.defined THEN fps.value ELSE I(0),
       posMin |-> IF hasMin
                    THEN <<boundMinX.value, boundMinY.value, boundMinZ.value>>
                    ELSE NoMetadata.posMin,
       posMax |-> IF hasMax
                    THEN <<boundMaxX.value, boundMaxY.value, boundMaxZ.value>>
                    ELSE NoMetadata.posMax,
       packed |-> FALSE]

\* applyMetadata(meta)
ApplyMetadata(meta) ==
  /\ numFramesInput' = IF "numFrames" \in meta.has THEN meta.numFrames
                       ELSE numFramesInput
  /\ fpsInput' = IF "fps" \in meta.has THEN meta.fps ELSE fpsInput
  /\ posMinInput' = IF "posMin" \in meta.has THEN meta.posMin ELSE posMinInput
  /\ posMaxInput' = IF "posMax" \in meta.has THEN meta.posMax ELSE posMaxInput
  /\ isPacked' = IF "packed" \in meta.has THEN meta.packed ELSE isPacked

\* text.includes("%YAML") || text.includes("_boundMinX:") ||
\* text.includes("_frameCount:")
IsUnityMaterial(doc) ==
  doc.yamlMarker \/ "_boundMinX" \in doc.present \/ "_frameCount" \in doc.present

\* metaInput change, after file.text() resolved with the text of doc. (Up to
\* that await the handler changes nothing.)
MetaLoaded(doc) ==
  /\ lastMeta' = doc
  /\ lastEvent' = "metaLoaded"
  /\ IF IsUnityMaterial(doc)
       THEN /\ statusEl' = "Unity material loaded"
            /\ ApplyMetadata(ParseUnityMaterial(doc))
     ELSE IF doc.parse = "throws"
       \* JSON.parse throws
       THEN /\ statusEl' = "Failed to parse metadata"
            /\ UNCHANGED <<calibFields, isPacked>>
     ELSE IF doc.parse = "null"
       \* applyMetadata(null) throws on meta.numFrames
       THEN /\ statusEl' = "Failed to parse metadata"
            /\ UNCHANGED <<calibFields, isPacked>>
     ELSE IF doc.parse = "object"
       THEN /\ statusEl' = "Metadata JSON loaded"
            /\ ApplyMetadata(doc.meta)
     \* a number, a string, a boolean or an array has none of the keys
     ELSE /\ statusEl' = "Metadata JSON loaded"
          /\ ApplyMetadata(NoMetadata)
  /\ UNCHANGED <<clockVars, speedInput, deltaTime, textureVars, loadVars,
                 sceneVars, buttonsDisabled, materialVars, instanceFields,
                 vsOut>>

\* The JSON object that has the keys of has.
JsonMetadata(has) ==
  [has |-> has, numFrames |-> I(48), fps |-> I(30),
   posMin |-> <<I(-1), I(-2), I(-3)>>, posMax |-> <<I(1), I(2), I(3)>>,
   packed |-> FALSE]

\* A text of the vendor kind: lines for the fields of present, with or
\* without the "%YAML" marker. It is no JSON.
VendorDocument(yamlMarker, present) ==
  [yamlMarker |-> yamlMarker, present |-> present, parse |-> "throws",
   meta |-> NoMetadata]

\* A text without any vendor line: JSON.parse throws on it or returns null,
\* a scalar, an array or an object with the keys of has.
JsonDocument(parse, has) ==
  [yamlMarker |-> FALSE, present |-> {}, parse |-> parse,
   meta |-> IF parse = "object" THEN JsonMetadata(has) ELSE NoMetadata]

\* The metadata files the user selects.
DocumentInputs ==
  {VendorDocument(y, P) :
     y \in BOOLEAN,
     P \in {{}, UnityFields, UnityFields \ {"_boundMaxZ"},
            {"_houdiniFPS", "_boundMinY"}}}
  \cup {JsonDocument(k, {}) : k \in {"throws", "null", "scalar", "array"}}
  \cup {JsonDocument("object", has) :
          has \in {{}, MetadataKeys, {"numFrames"}, {"posMin", "packed"}}}

NextMeta ==
  \/ \E doc \in DocumentInputs : MetaLoaded(doc)
  \/ \E v \in FrameInputs : SetNumFrames(v)

SpecMeta == Init /\ [][NextMeta]_vars

\* ------------------------------------------------------------------------
\* Specification of the vendor-format parser
\* ------------------------------------------------------------------------

\* The texts of the vendor kind: every subset of the eight fields, with and
\* without the "%YAML" marker.
VendorDocuments ==
  {VendorDocument(y, P) : y \in BOOLEAN, P \in SUBSET UnityFields}

\* The first metadata file selected is one of them.
NextParse == \E doc \in VendorDocuments : lastEvent = "init" /\ MetaLoaded(doc)

SpecParse == Init /\ [][NextParse]_vars

\* ------------------------------------------------------------------------
\* Specifications of Apply-VAT and of the layout
\* ------------------------------------------------------------------------

\* The load of the position texture in the run that ReadyWith ends.
ReadyTextureLoad ==
  [seq |-> 2, slot |-> "pos", tex |-> 2, scene |-> 2, file |-> "png",
   prior |-> [NoLoad.prior EXCEPT !.scene = 2], alone |-> TRUE]

\* The state after this run: the user typed the four values into the
\* instance count, spacing, frame-count and fps fields, then loaded a mesh
\* with UV2 and then a PNG position texture.
ReadyWith(count, spacing, frames, fps) ==
  /\ vatTime = I(0)
  /\ isPlaying = FALSE
  /\ speedInput = I(1)
  /\ deltaTime = 0
  /\ statusEl = "Position texture loaded"
  /\ lastEvent = "posTexLoaded"
  /\ positionTexture = 2
  /\ normalTexture = NULL
  /\ disposedTex = {}
  /\ loads = {}
  /\ nLoads = 2
  /\ latestReq = [slot \in Slots |-> CASE slot = "mesh" -> 1
                                       [] slot = "pos" -> 2
                                       [] OTHER -> 0]
  /\ lastLoad = ReadyTextureLoad
  /\ sceneId = 2
  /\ mesh = MeshOf([scene |-> 2, file |-> "uv2"])
  /\ meshSelect = [disabled |-> FALSE, value |-> 2]
  /\ buttonsDisabled = FALSE
  /\ vatMaterial = NoMaterial
  /\ vatMaterialInstanced = NoMaterial
  /\ originalMaterials = {}
  /\ currentVatMesh = NULL
  /\ isInstancedMode = FALSE
  /\ instancedModeCheckbox = FALSE
  /\ instanceCountInput = count
  /\ instanceSpacingInput = spacing
  /\ numFramesInput = frames
  /\ fpsInput = fps
  /\ posMinInput = <<I(0), I(0), I(0)>>
  /\ posMaxInput = <<I(1), I(1), I(1)>>
  /\ isPacked = TRUE
  /\ vsOut = NoShaderRun
  /\ lastMeta = NoDocument

\* Largest of the small instance counts typed.
MaxCount == 5

\* What the user types into the instance count field: text that is no
\* number, small counts from -1 on, and the counts around the upper limit.
CountInputs == {NaN} \cup {I(k) : k \in -1..MaxCount}

LargeCountInputs == {I(MaxInstances), I(MaxInstances + 1)}

SpacingInputs == {I(0), I(2)}

InitLayout ==
  \/ \E count \in CountInputs, spacing \in SpacingInputs :
       \E frames \in {I(1), I(4)}, fps \in {I(2), Norm(5, 2)} :
         ReadyWith(count, spacing, frames, fps)
  \/ \E count \in LargeCountInputs : ReadyWith(count, I(2), I(4), I(2))

NextLayout ==
  \/ ApplyVat
  \/ ToggleInstanced

SpecLayout == InitLayout /\ [][NextLayout]_vars

InitVat == ReadyWith(I(2), I(2), I(4), I(2))

NextVat ==
  \/ ApplyVat
  \/ ToggleInstanced
  \/ \E v \in {I(1), I(2)} : ChangeInstanceCount(v)
  \/ \E v \in {I(2)} : ChangeInstanceSpacing(v)
  \/ \E v \in FrameInputs : SetNumFrames(v)
  \/ \E v \in FpsInputs : SetFps(v)

SpecVat == InitVat /\ [][NextVat]_vars

\* Mesh and position texture loads that succeed (one at a time), Apply-VAT,
\* the instancing checkbox and a running clock together.

\* Loads requested in a run of SpecApply.
MaxApplyLoads == 2

\* Milliseconds a frame takes.
LongTick == 500

\* The instance count typed before the instancing is switched on.
FewInstances == 2

NextApply ==
  \/ \E file \in MeshFiles :
       loads = {} /\ nLoads < MaxApplyLoads /\ SelectModel(file)
  \/ \E load \in loads : ModelLoaded(load)
  \/ (loads = {} /\ nLoads < MaxApplyLoads /\ SelectPosTex("png"))
  \/ \E load \in loads : PosTexLoaded(load)
  \/ ApplyVat
  \/ ChangeInstanceCount(I(FewInstances))
  \/ (instanceCountInput = I(FewInstances) /\ ToggleInstanced)
  \/ Play
  \/ (Lt(vatTime, I(1)) /\ RenderTick(LongTick))

SpecApply == Init /\ [][NextApply]_vars

\* ------------------------------------------------------------------------
\* Specification of calibration changes against live decode programs
\* ------------------------------------------------------------------------

\* The metadata files selected while a decode program is live: a JSON object
\* with every key and one with the lower bound and the packed flag only.
CalibrationDocuments ==
  {JsonDocument("object", MetadataKeys),
   JsonDocument("object", {"posMin", "packed"})}

\* The frame count typed while a decode program is live.
OtherFrames == 3

NextCalib ==
  \/ ApplyVat
  \/ ToggleInstanced
  \/ SetNumFrames(I(OtherFrames))
  \/ \E doc \in CalibrationDocuments : MetaLoaded(doc)
  \/ RenderTick(LongTick)

SpecCalib == InitVat /\ [][NextCalib]_vars

\* ------------------------------------------------------------------------
\* Specification of the clock against live decode programs
\* ------------------------------------------------------------------------

\* The instance count typed while the instancing is on.
MoreInstances == 3

\* What the user types into the speed field while the clock runs.
TimeSpeedInputs == {I(-1), I(1)}

\* The mesh is reloaded while the instanced playback runs, one second in.
ReloadMoment ==
  isPlaying /\ vatMaterialInstanced.made /\ vatTime = I(1) /\ lastEvent = "tick"

NextTime ==
  \/ ApplyVat
  \/ ToggleInstanced
  \/ ChangeInstanceCount(I(MoreInstances))
  \/ Play
  \/ Pause
  \/ Reset
  \/ (Le(I(-1), vatTime) /\ Le(vatTime, I(1)) /\ RenderTick(LongTick))
  \/ \E v \in TimeSpeedInputs : SetSpeed(v)
  \/ (ReloadMoment /\ SelectModel("uv2"))
  \/ \E load \in loads : ModelLoaded(load)

SpecTime == InitVat /\ [][NextTime]_vars

\* ------------------------------------------------------------------------
\* Specification of the vertex shader's frame selection
\* ------------------------------------------------------------------------

\* Quarter seconds the accumulated time is drawn from.
MaxQuarters == 12

\* A time, in seconds, reached only after playing for a long while.
LongPlay == 1000000

TimeInputs == {Norm(k, 4) : k \in -1..MaxQuarters} \cup {I(LongPlay)}

OffsetInputs == {I(0), Norm(1, 3), Norm(1, 2), I(2)}

ShaderFpsInputs == {Norm(1, 2), I(1), Norm(5, 2), I(24)}

ShaderFrameInputs == {I(-2), I(1), I(3), I(4), I(24)}

\* A draw is set up: the uniforms and the instance offset are drawn from the
\* inputs, the shader has not run on them yet.
InitShader ==
  /\ InitController
  /\ \E time \in TimeInputs, offset \in OffsetInputs :
       \E fps \in ShaderFpsInputs, numFrames \in ShaderFrameInputs :
         vsOut = [NoShaderRun EXCEPT !.time = time, !.offset = offset,
                                     !.fps = fps, !.numFrames = numFrames]

\* One invocation of the vertex shader on the uniforms that were set up.
ShaderRun ==
  /\ vsOut' = VertexShaderMain(vsOut.time, vsOut.offset, vsOut.fps,
                               vsOut.numFrames)
  /\ UNCHANGED <<clockVars, speedInput, deltaTime, statusEl, lastEvent,
                 textureVars, loadVars, sceneVars, buttonsDisabled,
                 materialVars, instanceFields, calibFields, isPacked, lastMeta>>

NextShader == ShaderRun

SpecShader == InitShader /\ [][NextShader]_vars

\* ------------------------------------------------------------------------
\* The whole player
\* ------------------------------------------------------------------------

Next ==
  \/ NextClock
  \/ NextLoad
  \/ NextVat
  \/ NextMeta

Spec == Init /\ [][Next]_vars

\* ------------------------------------------------------------------------
\* Claims about the playback clock (SpecClock)
\* ------------------------------------------------------------------------

\* C2: the clock starts Paused with time 0; play() makes it Playing and keeps
\* the time, pause() makes it Paused and keeps the time, a render tick taken
\* while Paused keeps the time, and reset() sets the time to 0 and keeps the
\* Playing/Paused state.
C2_ClockTransitions ==
  /\ ~isPlaying /\ vatTime = I(0)
  /\ [][ /\ (lastEvent' = "play" => isPlaying' /\ vatTime' = vatTime)
         /\ (lastEvent' = "pause" => ~isPlaying' /\ vatTime' = vatTime)
         /\ (lastEvent' = "tick" /\ ~isPlaying => vatTime' = vatTime /\ ~isPlaying')
         /\ (lastEvent' = "reset" => vatTime' = I(0) /\ isPlaying' = isPlaying)
       ]_vars

\* C2 witness: a render tick was taken while Paused at a time the clock had
\* advanced to (so play, ticks and pause came before it).
C2_PausedTickSeen ==
  lastEvent = "tick" /\ ~isPlaying /\ Lt(I(0), vatTime) /\ deltaTime > 0

\* C3: a render tick taken while Playing adds elapsedSeconds * speed to the
\* time, for every numeric value of the speed field (0 and fractions
\* included); a tick taken while Paused leaves the time alone.
C3_AdvanceBySpeed ==
  [][ lastEvent' = "tick" /\ ~IsNaN(speedInput) =>
        vatTime' = IF isPlaying
                     THEN Add(vatTime, Mul(Div(I(deltaTime'), I(MsPerSecond)),
                                           speedInput))
                     ELSE vatTime
    ]_vars

\* ------------------------------------------------------------------------
\* Claims about the frame selection (SpecShader)
\* ------------------------------------------------------------------------

\* (time + offset) * fps of the last shader invocation
ShaderPhase == Mul(Add(vsOut.time, vsOut.offset), vsOut.fps)

\* C1: for time >= 0, offset >= 0, fps > 0 and numFrames > 0 the frame is a
\* whole number with 0 <= frame < numFrames, and it is 0 when
\* (time + offset) * fps is an exact multiple of numFrames, however large the
\* time.
C1_FrameInRange ==
  (/\ vsOut.ran
   /\ Le(I(0), vsOut.time) /\ Le(I(0), vsOut.offset)
   /\ Lt(I(0), vsOut.fps) /\ Lt(I(0), vsOut.numFrames))
  => /\ vsOut.frame.d = 1
     /\ Le(I(0), vsOut.frame)
     /\ Lt(vsOut.frame, vsOut.numFrames)
     /\ (Div(ShaderPhase, vsOut.numFrames).d = 1 => vsOut.frame = I(0))

\* C1 witness: after a long play the phase is a positive exact multiple of a
\* frame count above 1, and the frame drawn is 0.
C1_WrapSeen ==
  /\ vsOut.ran
  /\ vsOut.time = I(LongPlay) /\ vsOut.offset = I(2)
  /\ Lt(I(1), vsOut.numFrames)
  /\ Div(ShaderPhase, vsOut.numFrames).d = 1
  /\ vsOut.frame = I(0)

\* ------------------------------------------------------------------------
\* Claims about the instance layout (SpecLayout)
\* ------------------------------------------------------------------------

\* The instancing was built from the fields as they are now.
LayoutBuilt == mesh.present /\ mesh.material = "inst"

\* numFrames / fps of the instanced material
AnimDuration == Div(vatMaterialInstanced.numFrames, vatMaterialInstanced.fps)

\* C4: a layout built with count = 1 is exactly one instance, at (0, 0, 0),
\* whose timeOffset is the number 0 (not NaN).
C4_SingleInstance ==
  (LayoutBuilt /\ instanceCountInput = I(1))
  => /\ mesh.thinInstanceCount = 1
     /\ mesh.matrices = <<<<I(0), I(0), I(0)>>>>
     /\ mesh.timeOffsets = <<I(0)>>

\* C8: for every requested count n the number of instances built is
\* min(10000, max(1, n)).
C8_CountClamped ==
  (LayoutBuilt /\ ~IsNaN(instanceCountInput))
  => I(mesh.thinInstanceCount)
       = MathMin(I(MaxInstances), MathMax(I(MinInstances), instanceCountInput))

LastLoadUndisturbed == lastLoad.alone /\ lastLoad.seq = nLoads

\* C5: after the failure handler of a mesh or texture load has run, the
\* texture slots and their usability, the scene, the VAT materials,
\* currentVatMesh, the time and the playing flag are what they were before
\* the load was requested.
C5_FailureKeepsState ==
  (/\ lastEvent \in {"modelFailed", "posTexFailed", "normalTexFailed"}
   /\ LastLoadUndisturbed)
  => Snapshot = lastLoad.prior

\* The texture slot named
SlotOf(slot) == IF slot = "pos" THEN positionTexture ELSE normalTexture

\* C6: the result of a texture load that resolves after a newer load of the
\* same slot was requested, or after the mesh was reloaded, is not assigned
\* to the slot.
C6_StaleDiscarded ==
  (/\ lastEvent \in {"posTexLoaded", "normalTexLoaded"}
   /\ (lastLoad.seq < latestReq[lastLoad.slot] \/ lastLoad.scene # sceneId))
  => SlotOf(lastLoad.slot) # lastLoad.tex

\* ------------------------------------------------------------------------
\* Claims about Apply-VAT (SpecVat)
\* ------------------------------------------------------------------------

\* C7: whatever the frame-count field holds, every decode program made by
\* Apply-VAT or by building the instancing is given numFrames > 0.
C7_FramesPositive ==
  /\ (vatMaterial.made => Lt(I(0), vatMaterial.numFrames))
  /\ (vatMaterialInstanced.made => Lt(I(0), vatMaterialInstanced.numFrames))

\* ------------------------------------------------------------------------
\* Claims about metadata files (SpecMeta)
\* ------------------------------------------------------------------------

\* The document is malformed: it is not of the vendor kind and JSON.parse
\* throws on it or returns something that is no object.
Malformed(doc) ==
  ~IsUnityMaterial(doc) /\ doc.parse \in {"throws", "null", "scalar", "array"}

\* C10: a malformed metadata file changes no calibration value (frame count,
\* fps, the bounds, the packed flag) and a failure status is reported.
C10_MalformedAppliesNothing ==
  [][ (lastEvent' = "metaLoaded" /\ Malformed(lastMeta'))
        => /\ UNCHANGED <<calibFields, isPacked>>
           /\ statusEl' = "Failed to parse metadata"
    ]_vars

\* ------------------------------------------------------------------------
\* Claims about the validation of Apply-VAT (SpecApply)
\* ------------------------------------------------------------------------

\* C11: Apply-VAT invoked without a position texture, without a selectable
\* mesh or on a mesh without UV2 reports a message and leaves the mesh (its
\* material and instances), vatMaterial, vatMaterialInstanced,
\* currentVatMesh, the original materials, the time, the playing flag and
\* the instancing state as they were.
C11_ValidationAborts ==
  [][ (/\ lastEvent' = "applyVat"
       /\ \/ positionTexture = NULL
          \/ ~(mesh.present /\ mesh.id = meshSelect.value)
          \/ ~mesh.uv2)
        => /\ UNCHANGED <<mesh, vatMaterial, vatMaterialInstanced,
                          currentVatMesh, originalMaterials, vatTime,
                          isPlaying, isInstancedMode, instancedModeCheckbox>>
           /\ statusEl' \in {"Load a position texture first.",
                             "Select a mesh first.",
                             "Mesh has no UV2 channel."}
    ]_vars

\* C11 witness: Apply-VAT was refused on a mesh without UV2 while the buttons
\* were enabled and the clock was running at a time above 0.
C11_NoUv2Refused ==
  /\ lastEvent = "applyVat"
  /\ statusEl = "Mesh has no UV2 channel."
  /\ ~buttonsDisabled
  /\ isPlaying /\ Lt(I(0), vatTime)
  /\ mesh.present /\ mesh.material = "orig"

\* ------------------------------------------------------------------------
\* Claims about the vendor-format parser (SpecParse)
\* ------------------------------------------------------------------------

\* The three vendor fields of the lower and of the upper bound
MinFields == {"_boundMinX", "_boundMinY", "_boundMinZ"}

MaxFields == {"_boundMaxX", "_boundMaxY", "_boundMaxZ"}

\* C12: for every subset of the eight vendor fields in the text, the parsed
\* metadata has posMin iff the three _boundMin fields are there, posMax iff
\* the three _boundMax fields are there, numFrames (the frame count rounded
\* to the nearest whole number) iff _frameCount is there and fps iff
\* _houdiniFPS is there, and nothing else; the handler reports the file as
\* loaded (nothing was thrown) and a bound that was not parsed keeps its
\* fields.
C12_AllOrNothingBounds ==
  [][ (lastEvent' = "metaLoaded" /\ IsUnityMaterial(lastMeta'))
        => LET meta == ParseUnityMaterial(lastMeta')
               present == lastMeta'.present
               frameCount == LineValue("_frameCount")
           IN  /\ meta.has \subseteq {"posMin", "posMax", "numFrames", "fps"}
               /\ ("posMin" \in meta.has) <=> (MinFields \subseteq present)
               /\ ("posMax" \in meta.has) <=> (MaxFields \subseteq present)
               /\ ("numFrames" \in meta.has) <=> ("_frameCount" \in present)
               /\ ("fps" \in meta.has) <=> ("_houdiniFPS" \in present)
               /\ "numFrames" \in meta.has
                    => /\ meta.numFrames.d = 1
                       /\ Le(Sub(meta.numFrames, frameCount), Norm(1, 2))
                       /\ Le(Sub(frameCount, meta.numFrames), Norm(1, 2))
                       /\ numFramesInput' = meta.numFrames
               /\ "fps" \in meta.has => fpsInput' = LineValue("_houdiniFPS")
               /\ posMinInput' = IF MinFields \subseteq present
                                   THEN <<LineValue("_boundMinX"),
                                          LineValue("_boundMinY"),
                                          LineValue("_boundMinZ")>>
                                   ELSE posMinInput
               /\ posMaxInput' = IF MaxFields \subseteq present
                                   THEN <<LineValue("_boundMaxX"),
                                          LineValue("_boundMaxY"),
                                          LineValue("_boundMaxZ")>>
                                   ELSE posMaxInput
               /\ statusEl' = "Unity material loaded"
    ]_vars

\* C12 witness: a text that lacks only _boundMaxZ was parsed: the upper
\* bound keeps its initial fields, the lower bound and the rounded frame
\* count were applied.
C12_PartialMaxSeen ==
  /\ lastEvent = "metaLoaded"
  /\ lastMeta.present = UnityFields \ {"_boundMaxZ"}
  /\ "posMax" \notin ParseUnityMaterial(lastMeta).has
  /\ posMaxInput = <<I(1), I(1), I(1)>>
  /\ posMinInput = <<Norm(-3, 2), I(-2), I(-1)>>
  /\ numFramesInput = I(48)

\* ------------------------------------------------------------------------
\* Claims about calibration and the decode programs (SpecCalib)
\* ------------------------------------------------------------------------

\* The calibration values as the fields and the packed flag hold them now.
CalibrationNow ==
  [numFrames |-> NumFramesOf(numFramesInput), fps |-> FpsOf(fpsInput),
   posMin |-> posMinInput, posMax |-> posMaxInput, isPacked |-> isPacked]

\* The decode parameters a material holds.
ParamsOf(material) ==
  [numFrames |-> material.numFrames, fps |-> material.fps,
   posMin |-> material.posMin, posMax |-> material.posMax,
   isPacked |-> material.isPacked]

\* C13: at a render tick the parameters of every live decode program
\* (vatMaterial, and vatMaterialInstanced when there is one) are the current
\* calibration values.
C13_ProgramsFollowCalibration ==
  lastEvent = "tick"
  => /\ (vatMaterial.made => ParamsOf(vatMaterial) = CalibrationNow)
     /\ (vatMaterialInstanced.made
           => ParamsOf(vatMaterialInstanced) = CalibrationNow)

\* The live decode programs before and after a step.
ProgramSteps ==
  {<<vatMaterial, vatMaterial'>>, <<vatMaterialInstanced, vatMaterialInstanced'>>}

\* C14: the decode parameters of a program are replaced as a whole: a step
\* that makes a program or changes any of its five parameters leaves all
\* five at the calibration values of that moment, and it is an event
\* handler's step, never a render tick's. So at every tick the parameters of
\* the program that renders are one snapshot of the calibration record.
C14_ParametersReplacedWhole ==
  [][ \A step \in ProgramSteps :
        (/\ step[2].made
         /\ ~step[1].made \/ ParamsOf(step[2]) # ParamsOf(step[1]))
        => /\ ParamsOf(step[2]) = CalibrationNow'
           /\ lastEvent' # "tick"
    ]_vars

\* C14 witness: a tick renders the instanced program, whose parameters are
\* the calibration values of now, while the other program still holds an
\* older snapshot with another frame count and other bounds.
C14_TwoSnapshotsSeen ==
  /\ lastEvent = "tick"
  /\ mesh.material = "inst"
  /\ vatMaterial.made /\ vatMaterialInstanced.made
  /\ ParamsOf(vatMaterialInstanced) = CalibrationNow
  /\ vatMaterial.numFrames # vatMaterialInstanced.numFrames
  /\ vatMaterial.posMin # vatMaterialInstanced.posMin

\* ------------------------------------------------------------------------
\* Claims about the time (SpecTime)
\* ------------------------------------------------------------------------

\* C15: the time is never negative.
C15_TimeNonNegative == Le(I(0), vatTime)

\* C17: after every handler and every render tick, the vatTime uniform of
\* vatMaterial, and of vatMaterialInstanced when there is one, is the
\* controller's time.
C17_ProgramsSeeClock ==
  /\ (vatMaterial.made => vatMaterial.vatTime = vatTime)
  /\ (vatMaterialInstanced.made => vatMaterialInstanced.vatTime = vatTime)

\* C17 witness: the instancing was switched on while the clock stood at a
\* time above 0, and both programs hold that time.
C17_InstancedJoinsClock ==
  /\ lastEvent = "toggleInstanced"
  /\ Lt(I(0), vatTime)
  /\ vatMaterial.made /\ vatMaterial.vatTime = vatTime
  /\ vatMaterialInstanced.made /\ vatMaterialInstanced.vatTime = vatTime

\* ------------------------------------------------------------------------
\* Claims about the ownership of textures (SpecLoad)
\* ------------------------------------------------------------------------

\* The textures a material samples.
TexturesOf(material) ==
  IF material.made THEN {material.positionTexture, material.normalTexture}
  ELSE {}

\* C16: neither texture slot nor any live decode program refers to a
\* texture that was disposed of, also while a replacement is loading and
\* after it has loaded or failed.
C16_NoDisposedTexture ==
  ({positionTexture, normalTexture} \cup TexturesOf(vatMaterial)
     \cup TexturesOf(vatMaterialInstanced)) \cap disposedTex = {}

====
